---------------------------- MODULE Spec2Model ----------------------------
(***************************************************************************)
(* Model of src/src/describe.tsx: the RDF-quad-to-form-field inference     *)
(* (humanizePredicate, pickBestLangLiteral, fieldFromObject,               *)
(* fieldsFromQuads, extractTypeInfos) and the App component's state        *)
(* machine (the fetchDescribe effect and updateField).                    *)
(*                                                                         *)
(* Representation.  A JavaScript string is a sequence of one-character     *)
(* strings, so that split, replace, slice, charAt, length and the regular  *)
(* expressions of the source are computed character by character.  A       *)
(* JavaScript value is a tagged tuple: <<"string", s>>, <<"number", n>>,   *)
(* <<"boolean", b>>, <<"object", o>>, <<"undefined">>, <<"null">>.         *)
(***************************************************************************)
EXTENDS Integers, Sequences, FiniteSets, TLC

VARIABLES form, types, raw, loading, error, fetches, call

vars == <<form, types, raw, loading, error, fetches, call>>

appVars == <<form, types, raw, loading, error, fetches>>

-----------------------------------------------------------------------------
(* JavaScript values *)

Undefined == <<"undefined">>

JsNull == <<"null">>

JsStr(s) == <<"string", s>>

JsNum(n) == <<"number", n>>

JsBool(b) == <<"boolean", b>>

JsObj(o) == <<"object", o>>

\* NaN, as Number() returns it
NaN == [nan |-> TRUE, neg |-> FALSE, int |-> 0, frac |-> <<>>]

\* ToBoolean of the values the source tests with ||, && and if
Truthy(v) ==
    /\ v # Undefined
    /\ v # JsNull
    /\ v # JsStr(<<>>)
    /\ v # JsBool(FALSE)

\* a || b
Or(a, b) == IF Truthy(a) THEN a ELSE b

-----------------------------------------------------------------------------
(* Characters and strings *)

LowerLetters ==
    <<"a","b","c","d","e","f","g","h","i","j","k","l","m",
      "n","o","p","q","r","s","t","u","v","w","x","y","z">>

UpperLetters ==
    <<"A","B","C","D","E","F","G","H","I","J","K","L","M",
      "N","O","P","Q","R","S","T","U","V","W","X","Y","Z">>

Digits == <<"0","1","2","3","4","5","6","7","8","9">>

IndexIn(c, letters) ==
    IF \E i \in DOMAIN letters : letters[i] = c
    THEN CHOOSE i \in DOMAIN letters : letters[i] = c
    ELSE 0

\* String.prototype.toUpperCase on one character
ToUpperChar(c) ==
    IF IndexIn(c, LowerLetters) # 0 THEN UpperLetters[IndexIn(c, LowerLetters)] ELSE c

\* String.prototype.toLowerCase on one character
ToLowerChar(c) ==
    IF IndexIn(c, UpperLetters) # 0 THEN LowerLetters[IndexIn(c, UpperLetters)] ELSE c

toUpperCase(s) == [i \in DOMAIN s |-> ToUpperChar(s[i])]

toLowerCase(s) == [i \in DOMAIN s |-> ToLowerChar(s[i])]

\* s.slice(from) with a 0-based start
sliceFrom(s, from) == SubSeq(s, from + 1, Len(s))

\* s.slice(0, to)
slice0(s, to) == SubSeq(s, 1, IF to < Len(s) THEN to ELSE Len(s))

\* s.charAt(0): the empty string when s is empty
charAt0(s) == SubSeq(s, 1, 1)

startsWith(s, prefix) ==
    /\ Len(prefix) <= Len(s)
    /\ SubSeq(s, 1, Len(prefix)) = prefix

IsDigit(c) == IndexIn(c, Digits) # 0

IsSeparator(c) == c \in {"/", "#"}

IsDashOrUnderscore(c) == c \in {"_", "-"}

\* iri.split(/[\/#]/).pop(): what follows the last '/' or '#' (all of s when
\* there is none)
splitPop(s) ==
    LET seps == {i \in DOMAIN s : IsSeparator(s[i])}
        last == IF seps = {} THEN 0 ELSE CHOOSE i \in seps : \A j \in seps : j <= i
    IN  SubSeq(s, last + 1, Len(s))

\* s.replace(/[_\-]+/g, " "): each maximal run of '_' and '-' becomes one space
RECURSIVE replaceRuns(_)
replaceRuns(s) ==
    IF s = <<>> THEN <<>>
    ELSE LET n    == Len(s)
             init == SubSeq(s, 1, n - 1)
         IN  IF IsDashOrUnderscore(s[n])
             THEN IF n > 1 /\ IsDashOrUnderscore(s[n - 1])
                  THEN replaceRuns(init)
                  ELSE Append(replaceRuns(init), " ")
             ELSE Append(replaceRuns(init), s[n])

\* /^true$/i.test(val)
MatchesTrue(val) == toLowerCase(val) = <<"t","r","u","e">>

\* /^(true|false)$/i.test(val)
MatchesTrueOrFalse(val) ==
    toLowerCase(val) \in {<<"t","r","u","e">>, <<"f","a","l","s","e">>}

AllDigits(s) == s # <<>> /\ \A i \in DOMAIN s : IsDigit(s[i])

\* /^-?\d+(\.\d+)?$/.test(val)
MatchesNumber(val) ==
    LET body == IF val # <<>> /\ val[1] = "-" THEN Tail(val) ELSE val
        dots == {i \in DOMAIN body : body[i] = "."}
    IN  \/ AllDigits(body)
        \/ \E d \in dots :
              /\ AllDigits(SubSeq(body, 1, d - 1))
              /\ AllDigits(SubSeq(body, d + 1, Len(body)))

RECURSIVE DigitsValue(_)
DigitsValue(s) ==
    IF s = <<>> THEN 0
    ELSE 10 * DigitsValue(SubSeq(s, 1, Len(s) - 1)) + (IndexIn(s[Len(s)], Digits) - 1)

RECURSIVE stripTrailingZeros(_)
stripTrailingZeros(s) ==
    IF s # <<>> /\ s[Len(s)] = "0"
    THEN stripTrailingZeros(SubSeq(s, 1, Len(s) - 1))
    ELSE s

RECURSIVE trimSpaces(_)
trimSpaces(s) ==
    IF s # <<>> /\ s[1] = " " THEN trimSpaces(Tail(s))
    ELSE IF s # <<>> /\ s[Len(s)] = " " THEN trimSpaces(SubSeq(s, 1, Len(s) - 1))
    ELSE s

\* Number(val) on the texts of TextSamples: surrounding blanks are dropped, the
\* empty string is 0, an optionally signed decimal ("12", "-3.5", "5.", ".5")
\* is its value, and every other text is NaN.  A number is kept as sign,
\* integer part and fraction digits (trailing zeros dropped), which is exact
\* for texts this short.
Number(val) ==
    LET t      == trimSpaces(val)
        signed == t # <<>> /\ t[1] \in {"-", "+"}
        body   == IF signed THEN Tail(t) ELSE t
        dots   == {i \in DOMAIN body : body[i] = "."}
        dot    == IF dots = {} THEN Len(body) + 1 ELSE CHOOSE i \in dots : TRUE
        ip     == SubSeq(body, 1, dot - 1)
        fp     == SubSeq(body, dot + 1, Len(body))
        wellFormed ==
            /\ Cardinality(dots) <= 1
            /\ ip \o fp # <<>>
            /\ \A i \in DOMAIN ip : IsDigit(ip[i])
            /\ \A i \in DOMAIN fp : IsDigit(fp[i])
    IN  IF t = <<>> THEN [nan |-> FALSE, neg |-> FALSE, int |-> 0, frac |-> <<>>]
        ELSE IF wellFormed
        THEN [nan |-> FALSE, neg |-> signed /\ t[1] = "-",
              int |-> DigitsValue(ip), frac |-> stripTrailingZeros(fp)]
        ELSE NaN

\* Number.isNaN(num)
isNaN(num) == num.nan

-----------------------------------------------------------------------------
(* Program constants: describe.tsx lines 20-23 *)

XSD == <<"h","t","t","p",":","/","/","w","w","w",".","w","3",".","o","r","g","/","2","0","0","1","/","X","M","L","S","c","h","e","m","a","#">>

RDF == <<"h","t","t","p",":","/","/","w","w","w",".","w","3",".","o","r","g","/","1","9","9","9","/","0","2","/","2","2","-","r","d","f","-","s","y","n","t","a","x","-","n","s","#">>

RDFS == <<"h","t","t","p",":","/","/","w","w","w",".","w","3",".","o","r","g","/","2","0","0","0","/","0","1","/","r","d","f","-","s","c","h","e","m","a","#">>

DCT == <<"h","t","t","p",":","/","/","p","u","r","l",".","o","r","g","/","d","c","/","t","e","r","m","s","/">>

\* the length above which an untyped text becomes a textarea
TextareaThreshold == 120

\* the default of pickBestLangLiteral's pref parameter
DefaultPref == << <<"f","r">>, <<"e","n">> >>

-----------------------------------------------------------------------------
(* RDF terms, as the n3 library hands them over *)

NamedNode(iri) == [termType |-> "NamedNode", value |-> iri]

BlankNode(id) == [termType |-> "BlankNode", value |-> id]

\* language is the empty string and datatype the empty string when absent
Literal(text, language, datatype) ==
    [termType |-> "Literal", value |-> text, language |-> language,
     datatype |-> datatype]

Quad(s, p, o) == [subject |-> s, predicate |-> p, object |-> o]

\* obj.language, "" when the term has none
LanguageOf(obj) == IF obj.termType = "Literal" THEN obj.language ELSE <<>>

\* (obj.datatype && obj.datatype.value) || ""
DatatypeOf(obj) == IF obj.termType = "Literal" THEN obj.datatype ELSE <<>>

-----------------------------------------------------------------------------
(* The inference functions *)

humanizePredicate(iri) ==
    LET last == IF splitPop(iri) # <<>> THEN splitPop(iri) ELSE iri
        base == replaceRuns(last)
    IN  toUpperCase(charAt0(base)) \o sliceFrom(base, 1)

\* values.find(v => test(v)): the index of the first match, 0 when none
FirstIndex(S) == IF S = {} THEN 0 ELSE CHOOSE i \in S : \A j \in S : i <= j

\* the for loop over pref, then the two fallbacks
RECURSIVE pickFrom(_, _)
pickFrom(values, pref) ==
    IF pref # <<>>
    THEN LET hit == FirstIndex({i \in DOMAIN values :
                        toLowerCase(LanguageOf(values[i])) = Head(pref)})
         IN  IF hit # 0 THEN JsStr(values[hit].value)
             ELSE pickFrom(values, Tail(pref))
    ELSE LET noLang == FirstIndex({i \in DOMAIN values :
                           LanguageOf(values[i]) = <<>>})
         IN  IF noLang # 0 THEN JsStr(values[noLang].value)
             ELSE IF values # <<>> THEN JsStr(values[1].value)
             ELSE Undefined

\* faulty variant: the preference order reversed
pickBestLangLiteral_enFirst(values) == pickFrom(values, << <<"e","n">>, <<"f","r">> >>)

pickBestLangLiteral(values) == pickFrom(values, DefaultPref)

Field(kind, predicate, label, value) ==
    [kind |-> kind, predicate |-> predicate, label |-> label, value |-> value]

\* the value of a number field: "" when the text does not parse
NumberValue(val) == IF isNaN(Number(val)) THEN JsStr(<<>>) ELSE JsNum(Number(val))

fieldFromObject(predicate, obj) ==
    LET label == humanizePredicate(predicate)
        val   == obj.value
        dt    == DatatypeOf(obj)
        local == sliceFrom(dt, Len(XSD))
    IN  IF obj.termType = "NamedNode"
        THEN Field("iri", predicate, label, JsStr(obj.value))
        ELSE IF startsWith(dt, XSD)
        THEN CASE local = <<"b","o","o","l","e","a","n">> ->
                      Field("boolean", predicate, label, JsBool(MatchesTrue(val)))
               [] local \in {<<"d","a","t","e">>,
                             <<"d","a","t","e","T","i","m","e">>} ->
                      Field("date", predicate, label, JsStr(slice0(val, 10)))
               [] local \in {<<"i","n","t","e","g","e","r">>,
                             <<"d","e","c","i","m","a","l">>,
                             <<"d","o","u","b","l","e">>,
                             <<"f","l","o","a","t">>} ->
                      Field("number", predicate, label, NumberValue(val))
               [] OTHER -> Field("string", predicate, label, JsStr(val))
        ELSE IF Len(val) > TextareaThreshold
        THEN Field("textarea", predicate, label, JsStr(val))
        ELSE IF MatchesTrueOrFalse(val)
        THEN Field("boolean", predicate, label, JsBool(MatchesTrue(val)))
        ELSE IF MatchesNumber(val)
        THEN Field("number", predicate, label, NumberValue(val))
        ELSE Field("string", predicate, label, JsStr(val))

\* q.subject.termType === "NamedNode" && q.subject.value === resourceIri
IsAbout(q, resourceIri) ==
    q.subject.termType = "NamedNode" /\ q.subject.value = resourceIri

\* state[pred] = field on an object used as a map
Assign(state, key, v) ==
    [k \in DOMAIN state \cup {key} |-> IF k = key THEN v ELSE state[k]]

\* an object with no own property
EmptyObject == [k \in {} |-> {}]

\* the for loop of fieldsFromQuads over the first n rows.  fieldFromObject
\* returns a Field on every path, so "if (field)" always passes.
RECURSIVE assignRows(_, _)
assignRows(rows, n) ==
    IF n = 0 THEN EmptyObject
    ELSE LET q    == rows[n]
             pred == q.predicate.value
         IN  Assign(assignRows(rows, n - 1), pred, fieldFromObject(pred, q.object))

\* faulty variant: the map is rebuilt at every row, so only the last row's
\* entry stays
fieldsFromQuads_lastRowOnly(quads, resourceIri) ==
    LET keep(q) == IsAbout(q, resourceIri)
        rows    == SelectSeq(quads, keep)
    IN  IF rows = <<>> THEN EmptyObject
        ELSE LET q == rows[Len(rows)]
             IN  Assign(EmptyObject, q.predicate.value,
                        fieldFromObject(q.predicate.value, q.object))

fieldsFromQuads(quads, resourceIri) ==
    LET keep(q) == IsAbout(q, resourceIri)
        rows    == SelectSeq(quads, keep)
    IN  assignRows(rows, Len(rows))

\* faulty variant: no deduplication
uniqOf_noDedup(xs) == xs

\* Array.from(new Set(xs)): the distinct elements, each at its first place
RECURSIVE uniqOf(_)
uniqOf(xs) ==
    IF xs = <<>> THEN <<>>
    ELSE LET init == uniqOf(SubSeq(xs, 1, Len(xs) - 1))
             x    == xs[Len(xs)]
         IN  IF \E i \in DOMAIN init : init[i] = x THEN init ELSE Append(init, x)

\* bySubject.get(s) || []
bySubject(quads, s) ==
    LET keep(q) == q.subject.termType = "NamedNode" /\ q.subject.value = s
    IN  SelectSeq(quads, keep)

\* the literal objects of the quads of subjQuads whose predicate is pred
literalsOf(subjQuads, pred) ==
    LET keep(q) == /\ q.predicate.termType = "NamedNode"
                   /\ q.predicate.value = pred
                   /\ q.object.termType = "Literal"
        hits    == SelectSeq(subjQuads, keep)
    IN  [i \in DOMAIN hits |-> hits[i].object]

LABEL == RDFS \o <<"l","a","b","e","l">>

COMMENT == RDFS \o <<"c","o","m","m","e","n","t">>

DESCR == DCT \o <<"d","e","s","c","r","i","p","t","i","o","n">>

\* faulty variant: rdfs:comment tried before dcterms:description
typeInfoOf_commentFirst(quads, iri) ==
    LET subjQuads    == bySubject(quads, iri)
        labels       == literalsOf(subjQuads, LABEL)
        comments     == literalsOf(subjQuads, COMMENT)
        descriptions == literalsOf(subjQuads, DESCR)
        label        == Or(Or(pickBestLangLiteral(labels), JsStr(splitPop(iri))),
                           JsStr(iri))
        description  == Or(Or(pickBestLangLiteral(comments),
                              pickBestLangLiteral(descriptions)), Undefined)
    IN  [iri |-> iri, label |-> label, description |-> description]

\* the callback of uniq.map in extractTypeInfos
typeInfoOf(quads, iri) ==
    LET subjQuads    == bySubject(quads, iri)
        labels       == literalsOf(subjQuads, LABEL)
        comments     == literalsOf(subjQuads, COMMENT)
        descriptions == literalsOf(subjQuads, DESCR)
        label        == Or(Or(pickBestLangLiteral(labels), JsStr(splitPop(iri))),
                           JsStr(iri))
        description  == Or(Or(pickBestLangLiteral(descriptions),
                              pickBestLangLiteral(comments)), Undefined)
    IN  [iri |-> iri, label |-> label, description |-> description]

typePred == RDF \o <<"t","y","p","e">>

extractTypeInfos(quads, resourceIri) ==
    LET keep(q) == /\ IsAbout(q, resourceIri)
                   /\ q.predicate.termType = "NamedNode"
                   /\ q.predicate.value = typePred
                   /\ q.object.termType = "NamedNode"
        hits     == SelectSeq(quads, keep)
        typeIris == [i \in DOMAIN hits |-> hits[i].object.value]
        uniq     == uniqOf(typeIris)
    IN  [i \in DOMAIN uniq |-> typeInfoOf(quads, uniq[i])]

-----------------------------------------------------------------------------
(* Field Model Builder of spec.md 4.3: the excludeRdfType option.  The     *)
(* fieldsFromQuads of describe.tsx takes no options and keeps rdf:type     *)
(* (its "delete state[RDF + 'type']" is commented out, lines 105-106); the *)
(* variant with the removal is not among the source files.                 *)

buildFields(statements, subjectIri, excludeRdfType) ==
    LET state == fieldsFromQuads(statements, subjectIri)
    IN  IF excludeRdfType
        THEN [k \in DOMAIN state \ {typePred} |-> state[k]]
        ELSE state

-----------------------------------------------------------------------------
(* Bounds and input samples *)

\* longest statement sequence handed to fieldsFromQuads / extractTypeInfos
MaxQuads == 3

\* longest literal sequence handed to pickBestLangLiteral
MaxLiterals == 3

\* how many times the effect runs (mount, and each re-run of the effect)
MaxFetches == 2

resourceIri == <<"h","t","t","p",":","/","/","d","b","p","e","d","i","a",".","o","r","g","/","r","e","s","o","u","r","c","e","/","P","a","r","i","s">>

City == <<"h","t","t","p",":","/","/","e","/","b","i","g","_","c","i","t","y">>

Region == <<"h","t","t","p",":","/","/","e","/">>

Other == <<"u","r","n",":","o">>

pName == <<"h","t","t","p",":","/","/","e","/","f","u","l","l","-","n","a","m","e">>

pArea == <<"h","t","t","p",":","/","/","e","/","p","#","a","r","e","a">>

pAbsent == <<"h","t","t","p",":","/","/","e","/","a","b","s","e","n","t">>

rdfLangString == RDF \o <<"l","a","n","g","S","t","r","i","n","g">>

customDatatype == <<"h","t","t","p",":","/","/","e","/","d","t">>

Xsd(local) == XSD \o local

\* a text of n characters
TextOfLength(n) == [i \in 1..n |-> "x"]

TextSamples ==
    { <<"t","r","u","e">>, <<"T","R","U","E">>, <<"F","a","l","s","e">>, <<"1","2">>, <<"-","3",".","5","0">>, <<"5",".">>,
      <<"a","b","c">>, <<>>, <<"2","0","2","0","-","0","1","-","0","2","T","0","3",":","0","4">>, <<"P","a","r","i","s">>,
      TextOfLength(TextareaThreshold), TextOfLength(TextareaThreshold + 1) }

XsdLocals ==
    { <<"b","o","o","l","e","a","n">>, <<"d","a","t","e">>, <<"d","a","t","e","T","i","m","e">>, <<"i","n","t","e","g","e","r">>, <<"d","e","c","i","m","a","l">>, <<"d","o","u","b","l","e">>, <<"f","l","o","a","t">>,
      <<"s","t","r","i","n","g">> }

\* A literal with a language tag has the datatype rdf:langString (or none);
\* one without has no datatype, an XSD datatype or a custom one.
LiteralSamples ==
    { Literal(txt, <<>>, dt) :
        txt \in TextSamples,
        dt \in {<<>>, customDatatype} \cup {Xsd(l) : l \in XsdLocals} }
    \cup
    { Literal(txt, lang, dt) :
        txt \in TextSamples, lang \in {<<"f","r">>, <<"E","N">>}, dt \in {<<>>, rdfLangString} }

ObjectSamples == LiteralSamples \cup {NamedNode(City), BlankNode(<<"b","0">>)}

PredicateSamples == {pName, typePred}

\* the literals pickBestLangLiteral chooses among: distinct texts, so that
\* the result tells which literal was taken
TaggedSamples ==
    { Literal(<<"a">>, <<"f","r">>, rdfLangString), Literal(<<"b">>, <<"e","n">>, rdfLangString),
      Literal(<<"c">>, <<"F","R">>, rdfLangString), Literal(<<"d">>, <<>>, Xsd(<<"s","t","r","i","n","g">>)),
      Literal(<<"e">>, <<"d","e">>, rdfLangString), Literal(<<"f">>, <<"E","N">>, rdfLangString),
      Literal(<<>>, <<"f","r">>, rdfLangString),
      Literal(<<"g">>, <<"f","r","-","C","A">>, rdfLangString) }

QuadSamples ==
    LET S == NamedNode(resourceIri)
        P(iri) == NamedNode(iri)
    IN  { Quad(S, P(typePred), NamedNode(City)),
          Quad(S, P(typePred), NamedNode(Region)),
          Quad(S, P(typePred), Literal(<<"a","b","c">>, <<>>, Xsd(<<"s","t","r","i","n","g">>))),
          Quad(S, P(pName), Literal(<<"P","a","r","i","s">>, <<"f","r">>, rdfLangString)),
          Quad(S, P(pName), Literal(<<"1","2">>, <<>>, Xsd(<<"i","n","t","e","g","e","r">>))),
          Quad(S, P(pArea), NamedNode(Other)),
          Quad(BlankNode(<<"b","0">>), P(typePred), NamedNode(Other)),
          Quad(NamedNode(Other), P(typePred), NamedNode(Other)),
          Quad(NamedNode(City), P(LABEL), Literal(<<"V">>, <<"f","r">>, rdfLangString)),
          Quad(NamedNode(City), P(LABEL), Literal(<<"C">>, <<"E","N">>, rdfLangString)),
          Quad(NamedNode(City), P(LABEL), Literal(<<>>, <<>>, Xsd(<<"s","t","r","i","n","g">>))),
          Quad(NamedNode(City), P(COMMENT), Literal(<<"k">>, <<"e","n">>, rdfLangString)),
          Quad(NamedNode(City), P(DESCR), Literal(<<"d">>, <<"d","e">>, rdfLangString)),
          Quad(NamedNode(City), P(DESCR), Literal(<<>>, <<"f","r">>, rdfLangString)) }

\* the sequences over S of length at most n
SeqsUpTo(S, n) == UNION {[1..k -> S] : k \in 0..n}

-----------------------------------------------------------------------------
(* The pure functions, called on sampled inputs *)

Idle == [fn |-> "idle", args |-> <<>>, result |-> Undefined]

CallFieldFromObject ==
    /\ call.fn = "idle"
    /\ \E predicate \in PredicateSamples, obj \in ObjectSamples :
          call' = [fn |-> "fieldFromObject", args |-> <<predicate, obj>>,
                   result |-> fieldFromObject(predicate, obj)]
    /\ UNCHANGED appVars

CallPickBestLangLiteral ==
    /\ call.fn = "idle"
    /\ \E values \in SeqsUpTo(TaggedSamples, MaxLiterals) :
          call' = [fn |-> "pickBestLangLiteral", args |-> <<values>>,
                   result |-> pickBestLangLiteral(values)]
    /\ UNCHANGED appVars

CallFieldsFromQuads ==
    /\ call.fn = "idle"
    /\ \E quads \in SeqsUpTo(QuadSamples, MaxQuads) :
          call' = [fn |-> "fieldsFromQuads", args |-> <<quads, resourceIri>>,
                   result |-> fieldsFromQuads(quads, resourceIri)]
    /\ UNCHANGED appVars

CallBuildFields ==
    /\ call.fn = "idle"
    /\ \E quads \in SeqsUpTo(QuadSamples, MaxQuads), excludeRdfType \in BOOLEAN :
          call' = [fn |-> "buildFields",
                   args |-> <<quads, resourceIri, excludeRdfType>>,
                   result |-> buildFields(quads, resourceIri, excludeRdfType)]
    /\ UNCHANGED appVars

CallExtractTypeInfos ==
    /\ call.fn = "idle"
    /\ \E quads \in SeqsUpTo(QuadSamples, MaxQuads) :
          call' = [fn |-> "extractTypeInfos", args |-> <<quads, resourceIri>>,
                   result |-> extractTypeInfos(quads, resourceIri)]
    /\ UNCHANGED appVars

Return ==
    /\ call.fn # "idle"
    /\ call' = Idle
    /\ UNCHANGED appVars

-----------------------------------------------------------------------------
(* The App component: useState initial values, lines 178-182 *)

Init ==
    /\ form = JsNull
    /\ types = <<>>
    /\ raw = ""
    /\ loading = FALSE
    /\ error = JsNull
    /\ fetches = <<>>
    /\ call = Idle

NextPure ==
    \/ CallFieldFromObject
    \/ CallPickBestLangLiteral
    \/ CallFieldsFromQuads
    \/ CallBuildFields
    \/ CallExtractTypeInfos
    \/ Return

SpecPure == Init /\ [][NextPure]_vars

-----------------------------------------------------------------------------
(* The network and the Turtle parser, as the component sees them *)

\* the Turtle texts a response body may hold
Documents == {"doc1", "doc2", "empty", "bad"}

\* new Parser().parse(turtle): the statements, or a thrown syntax error
ParserParse(turtle) ==
    LET S == NamedNode(resourceIri)
        P(iri) == NamedNode(iri)
    IN  CASE turtle = "doc1" ->
               [ok |-> TRUE,
                quads |-> << Quad(S, P(typePred), NamedNode(City)),
                             Quad(S, P(pName), Literal(<<"P","a","r","i","s">>, <<"f","r">>, rdfLangString)),
                             Quad(NamedNode(City), P(LABEL),
                                  Literal(<<"V">>, <<"f","r">>, rdfLangString)) >>]
          [] turtle = "doc2" ->
               [ok |-> TRUE,
                quads |-> << Quad(S, P(pName), Literal(<<"1","2">>, <<>>, Xsd(<<"i","n","t","e","g","e","r">>))),
                             Quad(S, P(typePred), NamedNode(Region)) >>]
          [] turtle = "empty" -> [ok |-> TRUE, quads |-> <<>>]
          [] OTHER -> [ok |-> FALSE, quads |-> <<>>]

\* the status codes a response may carry
Statuses == {200, 404, 500}

\* Response.ok
Ok(status) == status \in 200..299

RECURSIVE NatToString(_)
NatToString(n) ==
    IF n < 10 THEN <<Digits[n + 1]>>
    ELSE NatToString(n \div 10) \o <<Digits[(n % 10) + 1]>>

\* `HTTP ${res.status}`
HttpErrorMessage(status) == <<"H","T","T","P"," ">> \o NatToString(status)

\* e.message of a rejected fetch(), of a rejected res.text(), of a parse error
FetchErrorMessage == <<"F","a","i","l","e","d"," ","t","o"," ","f","e","t","c","h">>

BodyErrorMessage == <<"b","o","d","y"," ","s","t","r","e","a","m"," ","e","r","r","o","r">>

ParseErrorMessage == <<"U","n","e","x","p","e","c","t","e","d"," ","t","o","k","e","n">>

\* the predicates and values updateField is called with
UpdatePredicates == {pName, pAbsent}

UpdateValues == {JsStr(<<"x">>), JsBool(TRUE)}

-----------------------------------------------------------------------------
(* The fetchDescribe effect, lines 184-217.  A run of fetchDescribe is a    *)
(* record of fetches: pc is where the async function is suspended ("fetch" *)
(* at await fetch(...), "text" at await res.text(), "done" after finally), *)
(* sent the requests it has issued, res the Response it holds.             *)

\* the catch and finally blocks
Catch(i, message) ==
    /\ error' = JsStr(message)
    /\ loading' = FALSE
    /\ fetches' = [fetches EXCEPT ![i].pc = "done", ![i].res = JsNull]

\* The effect runs: on mount, and again whenever React re-runs it (a changed
\* dependency, or the second mount of a development StrictMode tree).  The
\* effect returns no cleanup, so earlier runs keep going.  fetchDescribe runs
\* up to its first await.
RunEffect ==
    /\ Len(fetches) < MaxFetches
    /\ loading' = TRUE
    /\ error' = JsNull
    /\ fetches' = Append(fetches, [pc |-> "fetch", sent |-> <<"GET">>, res |-> JsNull])
    /\ UNCHANGED <<form, types, raw, call>>

\* await fetch(...) rejects: a transport error
FetchRejects(i) ==
    /\ fetches[i].pc = "fetch"
    /\ Catch(i, FetchErrorMessage)
    /\ UNCHANGED <<form, types, raw, call>>

\* await fetch(...) resolves with a non-success status: throw new Error(...)
FetchNotOk(i) ==
    /\ fetches[i].pc = "fetch"
    /\ \E status \in Statuses :
          /\ ~Ok(status)
          /\ Catch(i, HttpErrorMessage(status))
    /\ UNCHANGED <<form, types, raw, call>>

\* await fetch(...) resolves with a success status: res.text() is awaited
FetchOk(i) ==
    /\ fetches[i].pc = "fetch"
    /\ \E status \in Statuses, body \in Documents :
          /\ Ok(status)
          /\ fetches' = [fetches EXCEPT
                            ![i].pc = "text",
                            ![i].res = JsObj([status |-> status, body |-> body])]
    /\ UNCHANGED <<form, types, raw, loading, error, call>>

\* await res.text() rejects
TextRejects(i) ==
    /\ fetches[i].pc = "text"
    /\ Catch(i, BodyErrorMessage)
    /\ UNCHANGED <<form, types, raw, call>>

\* await res.text() resolves, setRaw, and parser.parse throws
ParseThrows(i) ==
    /\ fetches[i].pc = "text"
    /\ ~ParserParse(fetches[i].res[2].body).ok
    /\ raw' = fetches[i].res[2].body
    /\ Catch(i, ParseErrorMessage)
    /\ UNCHANGED <<form, types, call>>

\* await res.text() resolves and the try block runs to its end
Loaded(i) ==
    /\ fetches[i].pc = "text"
    /\ LET turtle == fetches[i].res[2].body
           parsed == ParserParse(turtle)
       IN  /\ parsed.ok
           /\ raw' = turtle
           /\ form' = JsObj(fieldsFromQuads(parsed.quads, resourceIri))
           /\ types' = extractTypeInfos(parsed.quads, resourceIri)
    /\ loading' = FALSE
    /\ fetches' = [fetches EXCEPT ![i].pc = "done", ![i].res = JsNull]
    /\ UNCHANGED <<error, call>>

\* { ...form[pred], value }: a copy of the entry with value replaced; of an
\* absent entry (undefined) the spread copies nothing
SpreadWithValue(state, pred, value) ==
    IF pred \in DOMAIN state
    THEN [state[pred] EXCEPT !.value = value]
    ELSE [value |-> value]

updateField(pred, value) ==
    /\ IF ~Truthy(form)
       THEN UNCHANGED form
       ELSE form' = JsObj(Assign(form[2], pred, SpreadWithValue(form[2], pred, value)))
    /\ UNCHANGED <<types, raw, loading, error, fetches, call>>

UpdateField == \E pred \in UpdatePredicates, value \in UpdateValues : updateField(pred, value)

Next ==
    \/ RunEffect
    \/ \E i \in DOMAIN fetches : FetchRejects(i)
    \/ \E i \in DOMAIN fetches : FetchNotOk(i)
    \/ \E i \in DOMAIN fetches : FetchOk(i)
    \/ \E i \in DOMAIN fetches : TextRejects(i)
    \/ \E i \in DOMAIN fetches : ParseThrows(i)
    \/ \E i \in DOMAIN fetches : Loaded(i)
    \/ UpdateField

Spec == Init /\ [][Next]_vars

-----------------------------------------------------------------------------
(* Properties of the App component, checked under Spec *)

\* C2: updateField(pred, value) with a predicate that is not a key of the
\* current form mapping is a no-op: the mapping keeps exactly its keys and
\* its Field at every key, and no entry for pred is created.
C2_UpdateAbsentKeyIsNoOp ==
    [][\A pred \in UpdatePredicates, value \in UpdateValues :
          (/\ Truthy(form)
           /\ pred \notin DOMAIN form[2]
           /\ updateField(pred, value))
              => /\ DOMAIN form'[2] = DOMAIN form[2]
                 /\ form' = form]_vars

\* fetch run i finishes in this step
Completes(i) == fetches[i].pc # "done" /\ fetches'[i].pc = "done"

\* the step reports a request failure carrying a status code
ReportsHttpFailure ==
    \E status \in Statuses : error' = JsStr(HttpErrorMessage(status))

\* C5: a non-success status on the GET is always followed by exactly one
\* equivalent POST before any failure is reported: a run of fetchDescribe
\* that reports a request failure with a status code has issued the GET and
\* then one POST.
C5_PostFallbackBeforeFailure ==
    [][\A i \in DOMAIN fetches :
          (Completes(i) /\ ReportsHttpFailure)
              => fetches[i].sent = <<"GET", "POST">>]_vars

\* C6: once a newer fetch has been started, the completion of an older one
\* writes none of form, types, raw, error and loading.
C6_SupersededResultDiscarded ==
    [][\A i \in DOMAIN fetches :
          (i < Len(fetches) /\ fetches'[i] # fetches[i])
              => UNCHANGED <<form, types, raw, error, loading>>]_vars

\* C7: when a fetch attempt completes, either form and types are both the
\* values derived from the newly parsed statements and error is null, or
\* form and types are both what they were and error is set.
C7_ReplacedInFullOrRetained ==
    [][\A i \in DOMAIN fetches :
          Completes(i) =>
              \/ /\ fetches[i].pc = "text"
                 /\ ParserParse(fetches[i].res[2].body).ok
                 /\ form' = JsObj(fieldsFromQuads(
                               ParserParse(fetches[i].res[2].body).quads, resourceIri))
                 /\ types' = extractTypeInfos(
                               ParserParse(fetches[i].res[2].body).quads, resourceIri)
                 /\ error' = JsNull
              \/ /\ form' = form
                 /\ types' = types
                 /\ error' # JsNull]_vars

\* the closed set of field kinds
Kinds == {"string", "number", "boolean", "date", "textarea", "iri"}

\* e, stored under key p, is a Field of p with the label derived at build time
IsFieldOf(e, p) ==
    /\ DOMAIN e = {"kind", "predicate", "label", "value"}
    /\ e.predicate = p
    /\ e.kind \in Kinds
    /\ e.label = humanizePredicate(p)

\* C11: in every state of the form mapping reached from a built field model
\* by updateField calls, every entry stored under key p is a Field whose
\* predicate is p, whose kind is one of the six kinds and whose label is the
\* one derived at build time; and an updateField(p, v) on an existing key
\* changes only the value of the entry at p, leaving its kind, predicate and
\* label and every other entry unchanged.
C11_EntriesStayFields ==
    /\ [](Truthy(form) => \A p \in DOMAIN form[2] : IsFieldOf(form[2][p], p))
    /\ [][\A pred \in UpdatePredicates, value \in UpdateValues :
             (/\ Truthy(form)
              /\ pred \in DOMAIN form[2]
              /\ updateField(pred, value))
                 => /\ DOMAIN form'[2] = DOMAIN form[2]
                    /\ \A p \in DOMAIN form[2] \ {pred} : form'[2][p] = form[2][p]
                    /\ form'[2][pred].kind = form[2][pred].kind
                    /\ form'[2][pred].predicate = form[2][pred].predicate
                    /\ form'[2][pred].label = form[2][pred].label]_vars

-----------------------------------------------------------------------------
(* Properties of the pure functions, checked under SpecPure *)

\* the statements of quads about the subject iri with predicate pred, by index
IndicesOf(quads, iri, pred) ==
    {i \in DOMAIN quads :
        /\ quads[i].subject = NamedNode(iri)
        /\ quads[i].predicate = NamedNode(pred)}

Min(S) == CHOOSE i \in S : \A j \in S : i <= j

\* the predicates the subject iri has a statement for
PredicatesOf(quads, iri) ==
    {quads[i].predicate.value :
        i \in {j \in DOMAIN quads : quads[j].subject = NamedNode(iri)}}

\* C1: for every statement sequence and subject, the Field that
\* fieldsFromQuads stores under a predicate is the classification of the
\* FIRST object of that predicate in source order; later objects of the same
\* predicate never change the entry.
C1_FirstValueWins ==
    call.fn = "fieldsFromQuads" =>
        LET quads == call.args[1]
            iri   == call.args[2]
        IN  \A pred \in PredicatesOf(quads, iri) :
               /\ pred \in DOMAIN call.result
               /\ call.result[pred] =
                     fieldFromObject(pred,
                         quads[Min(IndicesOf(quads, iri, pred))].object)

\* C3: for every Literal that carries a language tag, fieldFromObject returns
\* a Field of kind string, whatever the literal's text is.
C3_LangTaggedIsString ==
    (/\ call.fn = "fieldFromObject"
     /\ call.args[2].termType = "Literal"
     /\ call.args[2].language # <<>>)
        => call.result.kind = "string"

TypeIndices(quads, iri) ==
    {i \in IndicesOf(quads, iri, typePred) : quads[i].object.termType = "NamedNode"}

TypeIris(quads, iri) == {quads[i].object.value : i \in TypeIndices(quads, iri)}

FirstOccurrence(quads, iri, t) ==
    Min({i \in TypeIndices(quads, iri) : quads[i].object.value = t})

\* C8: extractTypeInfos returns exactly one TypeInfo per distinct IRI object
\* of the subject's rdf:type statements, without duplicates, in the order in
\* which each type IRI first occurs; with no rdf:type statement it returns
\* the empty sequence.
C8_TypesDistinctInFirstOccurrenceOrder ==
    call.fn = "extractTypeInfos" =>
        LET quads  == call.args[1]
            iri    == call.args[2]
            result == call.result
        IN  /\ {result[k].iri : k \in DOMAIN result} = TypeIris(quads, iri)
            /\ Len(result) = Cardinality(TypeIris(quads, iri))
            /\ \A k, l \in DOMAIN result :
                  k < l => FirstOccurrence(quads, iri, result[k].iri)
                             < FirstOccurrence(quads, iri, result[l].iri)
            /\ IndicesOf(quads, iri, typePred) = {} => result = <<>>

\* C8 witness: a type repeated after another one, collapsed to two entries
C8_Witness ==
    /\ call.fn = "extractTypeInfos"
    /\ Len(call.args[1]) = 3
    /\ Cardinality(TypeIndices(call.args[1], call.args[2])) = 3
    /\ Len(call.result) = 2

\* the literal objects, in source order, of the statements about iri with
\* predicate pred
RECURSIVE LiteralsAbout(_, _, _)
LiteralsAbout(quads, iri, pred) ==
    IF quads = <<>> THEN <<>>
    ELSE LET q    == Head(quads)
             rest == LiteralsAbout(Tail(quads), iri, pred)
         IN  IF /\ q.subject = NamedNode(iri)
                /\ q.predicate = NamedNode(pred)
                /\ q.object.termType = "Literal"
             THEN <<q.object>> \o rest
             ELSE rest

\* the predicate-label rule of spec.md 4.2 applied to the local name
HumanizedLocalName(iri) ==
    LET base == replaceRuns(splitPop(iri))
    IN  IF base = <<>> THEN <<>> ELSE <<ToUpperChar(base[1])>> \o Tail(base)

\* C9 as stated: label is the best-language pick among the rdfs:label
\* literals; if there is none, the humanized local name of the type IRI; if
\* that is empty, the full IRI.  Description is the pick among
\* dcterms:description, else among rdfs:comment, else absent.
C9_LabelFallbackHumanized ==
    call.fn = "extractTypeInfos" =>
        \A k \in DOMAIN call.result :
            LET quads        == call.args[1]
                iri          == call.result[k].iri
                labels       == LiteralsAbout(quads, iri, LABEL)
                descriptions == LiteralsAbout(quads, iri, DESCR)
                comments     == LiteralsAbout(quads, iri, COMMENT)
            IN  /\ call.result[k].label =
                      IF labels # <<>> THEN pickBestLangLiteral(labels)
                      ELSE IF HumanizedLocalName(iri) # <<>>
                      THEN JsStr(HumanizedLocalName(iri))
                      ELSE JsStr(iri)
                /\ call.result[k].description =
                      IF descriptions # <<>> THEN pickBestLangLiteral(descriptions)
                      ELSE IF comments # <<>> THEN pickBestLangLiteral(comments)
                      ELSE Undefined

\* a pick that is a text of at least one character
NonEmptyPick(values) ==
    /\ values # <<>>
    /\ pickBestLangLiteral(values) # JsStr(<<>>)

\* C9 amended: label is the best-language pick among the rdfs:label literals
\* when that pick is a non-empty text; otherwise the raw local name of the
\* type IRI (what follows the last '/' or '#', unchanged); if that is empty,
\* the full IRI.  Description is the pick among dcterms:description when it
\* is a non-empty text, else the pick among rdfs:comment when it is a
\* non-empty text, else absent.
C9_LabelFallbackRawLocalName ==
    call.fn = "extractTypeInfos" =>
        \A k \in DOMAIN call.result :
            LET quads        == call.args[1]
                iri          == call.result[k].iri
                labels       == LiteralsAbout(quads, iri, LABEL)
                descriptions == LiteralsAbout(quads, iri, DESCR)
                comments     == LiteralsAbout(quads, iri, COMMENT)
            IN  /\ call.result[k].label =
                      IF NonEmptyPick(labels) THEN pickBestLangLiteral(labels)
                      ELSE IF splitPop(iri) # <<>> THEN JsStr(splitPop(iri))
                      ELSE JsStr(iri)
                /\ call.result[k].description =
                      IF NonEmptyPick(descriptions)
                      THEN pickBestLangLiteral(descriptions)
                      ELSE IF NonEmptyPick(comments)
                      THEN pickBestLangLiteral(comments)
                      ELSE Undefined

\* C9 witness: a type with an empty description and a comment, and no label
C9_Witness ==
    /\ call.fn = "extractTypeInfos"
    /\ Len(call.result) = 1
    /\ call.result[1].iri = City
    /\ call.result[1].label = JsStr(splitPop(City))
    /\ LiteralsAbout(call.args[1], City, DESCR) # <<>>
    /\ call.result[1].description = JsStr(<<"k">>)

\* the indices of the literals whose tag is lang, compared case-insensitively
Tagged(values, lang) ==
    {i \in DOMAIN values : toUpperCase(values[i].language) = toUpperCase(lang)}

Untagged(values) == {i \in DOMAIN values : values[i].language = <<>>}

\* C10: pickBestLangLiteral with preference [fr, en] returns the text of the
\* first fr-tagged literal; else of the first en-tagged one; else of the first
\* literal with no tag; else of the first literal; else no value.  With one
\* fr-tagged and one en-tagged literal the result is the fr text in both
\* input orders.
C10_BestLanguagePick ==
    call.fn = "pickBestLangLiteral" =>
        LET values == call.args[1]
            fr     == Tagged(values, <<"f","r">>)
            en     == Tagged(values, <<"e","n">>)
            none   == Untagged(values)
        IN  /\ call.result =
                  IF fr # {} THEN JsStr(values[Min(fr)].value)
                  ELSE IF en # {} THEN JsStr(values[Min(en)].value)
                  ELSE IF none # {} THEN JsStr(values[Min(none)].value)
                  ELSE IF values # <<>> THEN JsStr(values[1].value)
                  ELSE Undefined
            /\ (Len(values) = 2 /\ Cardinality(fr) = 1 /\ Cardinality(en) = 1)
                  => \E i \in fr : call.result = JsStr(values[i].value)

\* C10 witness: an en-tagged literal ahead of an upper-case FR one
C10_Witness ==
    /\ call.fn = "pickBestLangLiteral"
    /\ Len(call.args[1]) = 2
    /\ call.args[1][1].language = <<"e","n">>
    /\ call.args[1][2].language = <<"F","R">>
    /\ call.result = JsStr(call.args[1][2].value)

=============================================================================
